---- MODULE Spec2Model ----
(***************************************************************************)
(* Student record store (src/src/main.c, student part) with its sorting   *)
(* engine, binary search and the loader that replays a persisted file     *)
(* through add_student / add_grade_to_student.                            *)
(*                                                                         *)
(* Indices are 0-based as in the C code; At/Put translate to the 1-based  *)
(* TLA+ sequence that holds the live range students[0..students_size-1].  *)
(***************************************************************************)
EXTENDS Integers, Sequences, FiniteSets, TLC

VARIABLES
    students,           \* live range of the dynamic array, a sequence of Student
    students_capacity,  \* allocated slots of the array
    pc,                 \* "boot" (before load), "menu" (running), "aborted" (exit(EXIT_FAILURE))
    ub_outcome,         \* what this build makes of an overflowing a->id - b->id:
                        \* "unset" until one can occur, then "wrap" or "fold"
    pre,                \* the live range as it was when the last operation began
    last,               \* the last operation: its name, arguments and result
    data_file,          \* what this process has written to DATA_FILE: NotWritten
                        \* until its first successful save (the file then is what
                        \* it was at start), afterwards the lines of the last one
    heap                \* the grade buffers that realloc has handed out, in the
                        \* order of their allocation: heap[b] is the number of
                        \* free() calls made on buffer b (followed in SpecOwn)

vars == <<students, students_capacity, pc, ub_outcome, pre, last, data_file, heap>>

----------------------------------------------------------------------------
(* Bounds of the model *)

MaxStudents == 2     \* students in the store, in Spec
MaxGrades == 1       \* grades in the store, in Spec
MaxFileLines == 4    \* lines of the file that Load reads
MaxGradeSeq == 3     \* grades in the store, in SpecGrades
MaxDeleteLen == 4    \* students of a store drawn by SpecDelete
MaxSortLen == 3      \* students of a store drawn by SpecSort
MaxStatsLen == 4    \* students of a store drawn by SpecStats
MaxAddLen == 4      \* students of a store drawn by SpecAdd
MaxMenuStudents == 1 \* students in the store, in SpecMenu
MaxMenuGrades == 1  \* grades in the store, in SpecMenu
MaxLoadLines == 4    \* lines of the file that LoadFrom reads
MaxAllocLen == 4     \* students of a store drawn by SpecAlloc
MaxAllocGrades == 2  \* grades in the store, in SpecAlloc
MaxFrameLen == 2     \* students in the store, in SpecFrame
MaxFrameGrades == 2  \* grades in the store, in SpecFrame
MaxRoundStudents == 2  \* students in the store, in SpecRound
MaxRoundGrades == 2    \* grades in the store, in SpecRound
MaxSessionStudents == 2  \* students in the store, in SpecSession
MaxSessionGrades == 2    \* grades in the store, in SpecSession
MaxOwnStudents == 2  \* students in the store, in SpecOwn
MaxOwnGrades == 2    \* grades in the store, in SpecOwn
MaxOwnBuffers == 3   \* grade buffers allocated in a run of SpecOwn
MaxAvgLen == 7       \* students of a store drawn by SpecSortAvg

(* Program constants *)

NAME_LEN == 50
INT_MAX == 2147483647
INT_MIN == -INT_MAX - 1
SORT_BY_ID == 0
SORT_BY_AVG == 1
BUBBLE == 1
INSERTION == 2
MERGE == 3

SortKeys == {SORT_BY_ID, SORT_BY_AVG}
SortMethods == {BUBBLE, INSERTION, MERGE}

----------------------------------------------------------------------------
(* float values.  A float is NaN or a rational num/den in lowest terms    *)
(* with den > 0.  The grades of the model are small integers, whose sums  *)
(* are exact in binary32; the one division of recalc_average rounds a     *)
(* quotient sum/n, and for the sums and counts of the model rounding      *)
(* keeps distinct quotients distinct and in order, so the rational stands *)
(* for the rounded float in every comparison the code makes.              *)

Abs(x) == IF x < 0 THEN -x ELSE x

RECURSIVE Gcd(_, _)
Gcd(a, b) == IF b = 0 THEN a ELSE Gcd(b, a % b)

FNaN == [nan |-> TRUE, num |-> 0, den |-> 1]
FInt(n) == [nan |-> FALSE, num |-> n, den |-> 1]
FZero == FInt(0)

FNorm(n, d) ==
    LET g == Gcd(Abs(n), d)
    IN  [nan |-> FALSE, num |-> n \div g, den |-> d \div g]

FAdd(a, b) ==
    IF a.nan \/ b.nan THEN FNaN
    ELSE FNorm(a.num * b.den + b.num * a.den, a.den * b.den)

FDivInt(a, n) == IF a.nan THEN FNaN ELSE FNorm(a.num, a.den * n)

\* a < b and a > b of C: false as soon as one operand is NaN
FLt(a, b) == ~a.nan /\ ~b.nan /\ a.num * b.den < b.num * a.den
FGt(a, b) == FLt(b, a)

----------------------------------------------------------------------------
(* The array *)

At(arr, i) == arr[i + 1]
Put(arr, i, v) == [arr EXCEPT ![i + 1] = v]

\* strncpy(dst, src, NAME_LEN-1); dst[NAME_LEN-1] = '\0'
CopyName(name) ==
    IF Len(name) > NAME_LEN - 1 THEN SubSeq(name, 1, NAME_LEN - 1) ELSE name

RECURSIVE index_of_id_from(_, _, _)
index_of_id_from(arr, id, i) ==
    IF i >= Len(arr) THEN -1
    ELSE IF At(arr, i).id = id THEN i
    ELSE index_of_id_from(arr, id, i + 1)

\* mutant: the scan starts at the second record
index_of_id_skips_first(arr, id) == index_of_id_from(arr, id, 1)

index_of_id(arr, id) == index_of_id_from(arr, id, 0)

\* the capacity after ensure_capacity succeeded
ensure_capacity(size, cap) ==
    IF size >= cap THEN (IF cap = 0 THEN 4 ELSE cap * 2) ELSE cap

\* whether ensure_capacity calls realloc, which may fail
NeedsRealloc(size, cap) == size >= cap

\* mutant: no duplicate check before the append
add_student_no_duplicate_check(arr, cap, id, name, allocOk) ==
    IF NeedsRealloc(Len(arr), cap) /\ ~allocOk
    THEN [ret |-> FALSE, arr |-> arr, cap |-> cap, ok |-> FALSE]
    ELSE [ret |-> TRUE,
          arr |-> Append(arr, [id |-> id, name |-> CopyName(name),
                               grades |-> <<>>, average |-> FZero]),
          cap |-> ensure_capacity(Len(arr), cap), ok |-> TRUE]

\* mutant: the new record is put in front of the others
add_student_prepends(arr, cap, id, name, allocOk) ==
    IF index_of_id(arr, id) # -1
    THEN [ret |-> FALSE, arr |-> arr, cap |-> cap, ok |-> TRUE]
    ELSE IF NeedsRealloc(Len(arr), cap) /\ ~allocOk
    THEN [ret |-> FALSE, arr |-> arr, cap |-> cap, ok |-> FALSE]
    ELSE [ret |-> TRUE,
          arr |-> <<[id |-> id, name |-> CopyName(name),
                     grades |-> <<>>, average |-> FZero]>> \o arr,
          cap |-> ensure_capacity(Len(arr), cap), ok |-> TRUE]

\* allocOk: whether the realloc of ensure_capacity, if it is called, succeeds;
\* ok = FALSE is exit(EXIT_FAILURE)
add_student(arr, cap, id, name, allocOk) ==
    IF index_of_id(arr, id) # -1
    THEN [ret |-> FALSE, arr |-> arr, cap |-> cap, ok |-> TRUE]
    ELSE IF NeedsRealloc(Len(arr), cap) /\ ~allocOk
    THEN [ret |-> FALSE, arr |-> arr, cap |-> cap, ok |-> FALSE]
    ELSE [ret |-> TRUE,
          arr |-> Append(arr, [id |-> id, name |-> CopyName(name),
                               grades |-> <<>>, average |-> FZero]),
          cap |-> ensure_capacity(Len(arr), cap), ok |-> TRUE]

RECURSIVE shift_left(_, _)
shift_left(arr, i) ==
    IF i < Len(arr) - 1 THEN shift_left(Put(arr, i, At(arr, i + 1)), i + 1)
    ELSE arr

\* mutant: the last record is moved into the hole instead of shifting left
delete_student_swap_with_last(arr, id) ==
    LET idx == index_of_id(arr, id)
    IN  IF idx = -1 THEN [ret |-> FALSE, arr |-> arr]
        ELSE [ret |-> TRUE,
              arr |-> SubSeq(Put(arr, idx, At(arr, Len(arr) - 1)), 1, Len(arr) - 1)]

delete_student(arr, id) ==
    LET idx == index_of_id(arr, id)
    IN  IF idx = -1 THEN [ret |-> FALSE, arr |-> arr]
        ELSE [ret |-> TRUE,
              arr |-> SubSeq(shift_left(arr, idx), 1, Len(arr) - 1)]

\* mutant: an absent id is reported as updated
update_student_name_reports_success(arr, id, newname) ==
    LET idx == index_of_id(arr, id)
    IN  IF idx = -1 THEN [ret |-> TRUE, arr |-> arr]
        ELSE [ret |-> TRUE,
              arr |-> Put(arr, idx, [At(arr, idx) EXCEPT !.name = CopyName(newname)])]

update_student_name(arr, id, newname) ==
    LET idx == index_of_id(arr, id)
    IN  IF idx = -1 THEN [ret |-> FALSE, arr |-> arr]
        ELSE [ret |-> TRUE,
              arr |-> Put(arr, idx, [At(arr, idx) EXCEPT !.name = CopyName(newname)])]

RECURSIVE sum_grades_drops_last(_, _, _)
\* mutant: the right half is summed over n - mid - 1 grades
sum_grades_drops_last(grades, off, n) ==
    IF n <= 0 THEN FZero
    ELSE IF n = 1 THEN grades[off + 1]
    ELSE LET mid == n \div 2
             left == sum_grades_drops_last(grades, off, mid)
             right == sum_grades_drops_last(grades, off + mid, n - mid - 1)
         IN  FAdd(left, right)

RECURSIVE sum_grades_recursive(_, _, _)
\* grades + off, n
sum_grades_recursive(grades, off, n) ==
    IF n <= 0 THEN FZero
    ELSE IF n = 1 THEN grades[off + 1]
    ELSE LET mid == n \div 2
             left == sum_grades_recursive(grades, off, mid)
             right == sum_grades_recursive(grades, off + mid, n - mid)
         IN  FAdd(left, right)

recalc_average(s) ==
    IF Len(s.grades) = 0 THEN [s EXCEPT !.average = FZero]
    ELSE [s EXCEPT !.average =
              FDivInt(sum_grades_recursive(s.grades, 0, Len(s.grades)), Len(s.grades))]

\* mutant: the result of realloc replaces the buffer before it is checked
add_grade_to_student_loses_buffer(arr, id, grade, allocOk) ==
    LET idx == index_of_id(arr, id)
    IN  IF idx = -1 THEN [ret |-> FALSE, arr |-> arr, ok |-> TRUE]
        ELSE IF ~allocOk
        THEN [ret |-> FALSE,
              arr |-> Put(arr, idx, [At(arr, idx) EXCEPT !.grades = <<>>]),
              ok |-> FALSE]
        ELSE LET s == At(arr, idx)
                 s2 == [s EXCEPT !.grades = Append(s.grades, grade)]
             IN  [ret |-> TRUE, arr |-> Put(arr, idx, recalc_average(s2)), ok |-> TRUE]

\* allocOk: whether the realloc of the grade buffer succeeds
add_grade_to_student(arr, id, grade, allocOk) ==
    LET idx == index_of_id(arr, id)
    IN  IF idx = -1 THEN [ret |-> FALSE, arr |-> arr, ok |-> TRUE]
        ELSE IF ~allocOk THEN [ret |-> FALSE, arr |-> arr, ok |-> FALSE]
        ELSE LET s == At(arr, idx)
                 s2 == [s EXCEPT !.grades = Append(s.grades, grade)]
             IN  [ret |-> TRUE, arr |-> Put(arr, idx, recalc_average(s2)), ok |-> TRUE]

----------------------------------------------------------------------------
(* Sorting utilities.                                                      *)
(*                                                                         *)
(* cmp_students by id is a->id - b->id in int.  When the difference does   *)
(* not fit 32 bits the subtraction is undefined behaviour; ub names the    *)
(* outcome of the build: "wrap" (the two's complement result, what the     *)
(* Makefile's unoptimised build computes) or "fold" (the comparison folded *)
(* to the order of the ids, what an optimising build computes).  A run is  *)
(* a run of one build: the outcome is chosen when an overflow can first    *)
(* occur and kept in ub_outcome from then on.                              *)

UbOutcomes == {"wrap", "fold"}

SubOverflows(a, b) ==
    \/ a >= 0 /\ b < 0 /\ a > INT_MAX + b
    \/ a < 0 /\ b >= 0 /\ a < INT_MIN + b

\* a - b modulo 2^32 as a signed 32-bit value, for a difference that overflows
SubWrapped(a, b) ==
    IF a >= 0 THEN (a + INT_MIN) + (INT_MIN - b)
    ELSE (a - INT_MIN) + ((INT_MAX - b) + 1)

Sign(a, b) == IF a < b THEN -1 ELSE IF a > b THEN 1 ELSE 0

IntSub(a, b, ub) ==
    IF ~SubOverflows(a, b) THEN a - b
    ELSE IF ub = "wrap" THEN SubWrapped(a, b)
    ELSE Sign(a, b)

cmp_students(a, b, key, ub) ==
    IF key = SORT_BY_ID THEN IntSub(a.id, b.id, ub)
    ELSE IF FLt(a.average, b.average) THEN -1
    ELSE IF FGt(a.average, b.average) THEN 1
    ELSE 0

\* mutant: the ids and names are exchanged, the grades and averages stay
swap_students_leaves_grades(arr, i, j) ==
    LET a == At(arr, i)
        b == At(arr, j)
    IN  Put(Put(arr, i, [a EXCEPT !.id = b.id, !.name = b.name]),
            j, [b EXCEPT !.id = a.id, !.name = a.name])

swap_students(arr, i, j) ==
    LET tmp == At(arr, i)
    IN  Put(Put(arr, i, At(arr, j)), j, tmp)

RECURSIVE bubble_inner(_, _, _, _, _, _)
\* the inner loop from j, returning the array and the swapped flag
bubble_inner(arr, i, j, swapped, key, ub) ==
    IF j < Len(arr) - 1 - i THEN
        IF cmp_students(At(arr, j), At(arr, j + 1), key, ub) > 0
        THEN bubble_inner(swap_students(arr, j, j + 1), i, j + 1, TRUE, key, ub)
        ELSE bubble_inner(arr, i, j + 1, swapped, key, ub)
    ELSE [arr |-> arr, swapped |-> swapped]

RECURSIVE bubble_outer(_, _, _, _, _)
\* the outer loop from i; passes collects the swapped flag of every pass made
bubble_outer(arr, i, key, ub, passes) ==
    IF i < Len(arr) - 1 THEN
        LET p == bubble_inner(arr, i, 0, FALSE, key, ub)
        IN  IF ~p.swapped THEN [arr |-> p.arr, passes |-> Append(passes, FALSE)]
            ELSE bubble_outer(p.arr, i + 1, key, ub, Append(passes, TRUE))
    ELSE [arr |-> arr, passes |-> passes]

bubble_sort(arr, key, ub) == bubble_outer(arr, 0, key, ub, <<>>).arr

RECURSIVE insertion_inner(_, _, _, _, _)
\* the while loop: shifts students[j] right while it is greater than keyStudent
insertion_inner(arr, j, keyStudent, key, ub) ==
    IF j >= 0 /\ cmp_students(At(arr, j), keyStudent, key, ub) > 0
    THEN insertion_inner(Put(arr, j + 1, At(arr, j)), j - 1, keyStudent, key, ub)
    ELSE Put(arr, j + 1, keyStudent)

RECURSIVE insertion_outer(_, _, _, _)
insertion_outer(arr, i, key, ub) ==
    IF i < Len(arr) THEN
        insertion_outer(insertion_inner(arr, i - 1, At(arr, i), key, ub), i + 1, key, ub)
    ELSE arr

insertion_sort(arr, key, ub) == insertion_outer(arr, 1, key, ub)

RECURSIVE merge_loop(_, _, _, _, _, _, _, _)
\* the three while loops of merge_range over the copies L and R
merge_loop(arr, L, R, i, j, k, key, ub) ==
    IF i < Len(L) /\ j < Len(R) THEN
        IF cmp_students(At(L, i), At(R, j), key, ub) <= 0
        THEN merge_loop(Put(arr, k, At(L, i)), L, R, i + 1, j, k + 1, key, ub)
        ELSE merge_loop(Put(arr, k, At(R, j)), L, R, i, j + 1, k + 1, key, ub)
    ELSE IF i < Len(L) THEN
        merge_loop(Put(arr, k, At(L, i)), L, R, i + 1, j, k + 1, key, ub)
    ELSE IF j < Len(R) THEN
        merge_loop(Put(arr, k, At(R, j)), L, R, i, j + 1, k + 1, key, ub)
    ELSE arr

merge_range(arr, left, mid, right, key, ub) ==
    LET n1 == mid - left + 1
        n2 == right - mid
        L == [x \in 1..n1 |-> At(arr, left + x - 1)]
        R == [x \in 1..n2 |-> At(arr, mid + 1 + x - 1)]
    IN  merge_loop(arr, L, R, 0, 0, left, key, ub)

RECURSIVE merge_sort_recursive(_, _, _, _, _, _)
\* fuel is the number of merge_range calls whose two malloc succeed; the
\* call that finds fuel = 0 exits the process with the array as it stands.
merge_sort_recursive(arr, left, right, key, ub, fuel) ==
    IF left >= right THEN [arr |-> arr, fuel |-> fuel, ok |-> TRUE]
    ELSE LET mid == left + (right - left) \div 2
             a == merge_sort_recursive(arr, left, mid, key, ub, fuel)
         IN  IF ~a.ok THEN a
             ELSE LET b == merge_sort_recursive(a.arr, mid + 1, right, key, ub, a.fuel)
                  IN  IF ~b.ok THEN b
                      ELSE IF b.fuel = 0 THEN [arr |-> b.arr, fuel |-> 0, ok |-> FALSE]
                      ELSE [arr |-> merge_range(b.arr, left, mid, right, key, ub),
                            fuel |-> b.fuel - 1, ok |-> TRUE]

sort_students(arr, method, key, ub, fuel) ==
    IF Len(arr) <= 1 THEN [arr |-> arr, ok |-> TRUE]
    ELSE IF method = BUBBLE THEN [arr |-> bubble_sort(arr, key, ub), ok |-> TRUE]
    ELSE IF method = INSERTION THEN [arr |-> insertion_sort(arr, key, ub), ok |-> TRUE]
    ELSE LET m == merge_sort_recursive(arr, 0, Len(arr) - 1, key, ub, fuel)
         IN  [arr |-> m.arr, ok |-> m.ok]

RECURSIVE binary_search_by_id_recursive(_, _, _, _)
binary_search_by_id_recursive(arr, target_id, left, right) ==
    IF left > right THEN -1
    ELSE LET mid == left + (right - left) \div 2
         IN  IF At(arr, mid).id = target_id THEN mid
             ELSE IF At(arr, mid).id > target_id
                  THEN binary_search_by_id_recursive(arr, target_id, left, mid - 1)
                  ELSE binary_search_by_id_recursive(arr, target_id, mid + 1, right)

RECURSIVE highest_lowest_loop(_, _, _)
\* the for loop of class_highest_lowest from index i
highest_lowest_loop(arr, i, r) ==
    IF i < Len(arr) THEN
        LET a == At(arr, i).average
            r1 == IF FGt(a, r.highest) THEN [r EXCEPT !.highest = a, !.h_idx = i] ELSE r
            r2 == IF FLt(a, r1.lowest) THEN [r1 EXCEPT !.lowest = a, !.l_idx = i] ELSE r1
        IN  highest_lowest_loop(arr, i + 1, r2)
    ELSE r

\* on an empty store the four outputs are not written
class_highest_lowest(arr, out) ==
    IF Len(arr) = 0 THEN [out EXCEPT !.ret = FALSE]
    ELSE highest_lowest_loop(arr, 1,
             [ret |-> TRUE, highest |-> At(arr, 0).average, h_idx |-> 0,
              lowest |-> At(arr, 0).average, l_idx |-> 0])

----------------------------------------------------------------------------
(* The loader.  A file is a sequence of lines; a line is what the scan of  *)
(* load_students_from_file makes of it:                                    *)
(*   id     - holds "id": ; val is the integer sscanf reads, parsed says    *)
(*            whether it read one                                          *)
(*   name   - holds "name": ; sep is the text between the second and the   *)
(*            third double quote of the line, closed says whether a third  *)
(*            quote exists                                                 *)
(*   grades - holds "grades": ; vals are the floats between [ and ]        *)
(*   close  - holds }                                                      *)
(*   other  - none of these                                                *)

LoaderStart(fuel) ==
    [arr |-> <<>>, cap |-> 0, current_id |-> -1, current_name |-> <<>>,
     in_student |-> FALSE, fuel |-> fuel, ok |-> TRUE]

RECURSIVE load_grades(_, _, _)
\* the strtok loop: add_grade_to_student for every token from the k-th
load_grades(st, vals, k) ==
    IF k > Len(vals) \/ ~st.ok THEN st
    ELSE LET r == add_grade_to_student(st.arr, st.current_id, vals[k], st.fuel > 0)
             used == IF r.ret THEN 1 ELSE 0
         IN  load_grades([st EXCEPT !.arr = r.arr, !.ok = r.ok,
                                    !.fuel = st.fuel - used], vals, k + 1)

\* mutant: the persisted average is stored into the record
load_line_trusts_average(st, line) ==
    IF line.kind = "id" THEN
        [st EXCEPT !.current_id = IF line.parsed THEN line.val ELSE st.current_id,
                   !.in_student = TRUE]
    ELSE IF line.kind = "name" THEN
        IF line.closed THEN [st EXCEPT !.current_name = CopyName(line.sep)] ELSE st
    ELSE IF line.kind = "grades" THEN
        LET a == IF st.current_id >= 0 /\ Len(st.current_name) > 0
                 THEN add_student(st.arr, st.cap, st.current_id, st.current_name,
                                  st.fuel > 0)
                 ELSE [ret |-> FALSE, arr |-> st.arr, cap |-> st.cap, ok |-> TRUE]
             used == IF a.ret /\ a.cap # st.cap THEN 1 ELSE 0
             st2 == [st EXCEPT !.arr = a.arr, !.cap = a.cap, !.ok = a.ok,
                               !.fuel = st.fuel - used]
         IN  IF st2.ok /\ st2.current_id >= 0 THEN load_grades(st2, line.vals, 1)
             ELSE st2
    ELSE IF line.kind = "close" /\ st.in_student THEN
        [st EXCEPT !.current_id = -1, !.current_name = <<>>, !.in_student = FALSE]
    ELSE IF line.kind = "average" /\ index_of_id(st.arr, st.current_id) # -1 THEN
        LET idx == index_of_id(st.arr, st.current_id)
        IN  [st EXCEPT !.arr = Put(st.arr, idx,
                                   [At(st.arr, idx) EXCEPT !.average = line.val])]
    ELSE st

load_line(st, line) ==
    IF line.kind = "id" THEN
        [st EXCEPT !.current_id = IF line.parsed THEN line.val ELSE st.current_id,
                   !.in_student = TRUE]
    ELSE IF line.kind = "name" THEN
        IF line.closed THEN [st EXCEPT !.current_name = CopyName(line.sep)] ELSE st
    ELSE IF line.kind = "grades" THEN
        LET a == IF st.current_id >= 0 /\ Len(st.current_name) > 0
                 THEN add_student(st.arr, st.cap, st.current_id, st.current_name,
                                  st.fuel > 0)
                 ELSE [ret |-> FALSE, arr |-> st.arr, cap |-> st.cap, ok |-> TRUE]
             used == IF a.ret /\ a.cap # st.cap THEN 1 ELSE 0
             st2 == [st EXCEPT !.arr = a.arr, !.cap = a.cap, !.ok = a.ok,
                               !.fuel = st.fuel - used]
         IN  IF st2.ok /\ st2.current_id >= 0 THEN load_grades(st2, line.vals, 1)
             ELSE st2
    ELSE IF line.kind = "close" /\ st.in_student THEN
        [st EXCEPT !.current_id = -1, !.current_name = <<>>, !.in_student = FALSE]
    ELSE st

RECURSIVE load_lines(_, _, _)
load_lines(st, file, k) ==
    IF k > Len(file) \/ ~st.ok THEN st
    ELSE load_lines(load_line(st, file[k]), file, k + 1)

\* a missing file loads like an empty one: the store stays empty
load_students_from_file(file, fuel) == load_lines(LoaderStart(fuel), file, 1)

----------------------------------------------------------------------------
(* Inputs *)

StoreIds == 1..MaxStudents
Names == {<<"A">>, <<"B">>}
Grades == {FInt(0), FInt(100)}

IdLine(v) == [kind |-> "id", val |-> v, parsed |-> TRUE]
NameLine(sep) == [kind |-> "name", sep |-> sep, closed |-> TRUE]
GradesLine(vals) == [kind |-> "grades", vals |-> vals]
CloseLine == [kind |-> "close"]

\* what save writes between "name" and the value is a colon and a space
SavedSep == <<":", " ">>

FileLines ==
    {IdLine(1), IdLine(2), IdLine(-1), NameLine(SavedSep), NameLine(<<>>),
     GradesLine(<<>>), GradesLine(<<FInt(100), FInt(0)>>), CloseLine}

RECURSIVE SeqsUpTo(_, _)
SeqsUpTo(S, n) ==
    IF n = 0 THEN {<<>>}
    ELSE LET shorter == SeqsUpTo(S, n - 1)
         IN  shorter \cup {Append(q, x) : q \in {r \in shorter : Len(r) = n - 1}, x \in S}

Files == SeqsUpTo(FileLines, MaxFileLines)

TotalGrades(arr) ==
    LET RECURSIVE tot(_)
        tot(i) == IF i > Len(arr) THEN 0 ELSE Len(arr[i].grades) + tot(i + 1)
    IN  tot(1)

----------------------------------------------------------------------------
(* State *)

\* no save has been made by this process
NotWritten == <<"not written">>

\* saves: the save_students_to_file calls of the operation and save_ret what
\* the last of them returned; passes: the
\* swapped flag of every pass of its bubble sort; highest .. l_idx: the
\* outputs of class_highest_lowest; file: the lines read by LoadFrom
NoLast ==
    [op |-> "none", id |-> 0, name |-> <<>>, grade |-> FZero, method |-> 0,
     key |-> 0, ret |-> FALSE, idx |-> -1, i |-> -1, j |-> -1, res |-> 0,
     saves |-> 0, save_ret |-> FALSE, passes |-> <<>>, highest |-> FZero,
     h_idx |-> -1, lowest |-> FZero, l_idx |-> -1, file |-> <<>>]

Init ==
    /\ students = <<>>
    /\ students_capacity = 0
    /\ pc = "boot"
    /\ ub_outcome = "unset"
    /\ pre = <<>>
    /\ last = NoLast
    /\ data_file = NotWritten
    /\ heap = <<>>

\* main: init_students, load_students_from_file, then the menu
Load ==
    /\ pc = "boot"
    /\ \E file \in Files, fuel \in 0..MaxFileLines :
          LET r == load_students_from_file(file, fuel)
          IN  /\ students' = r.arr
              /\ students_capacity' = r.cap
              /\ pc' = IF r.ok THEN "menu" ELSE "aborted"
              /\ pre' = students
              /\ last' = [NoLast EXCEPT !.op = "load", !.ret = r.ok]
    /\ UNCHANGED <<ub_outcome, data_file, heap>>

AddStudent(id, name) ==
    /\ pc = "menu"
    /\ index_of_id(students, id) # -1 \/ Len(students) < MaxStudents
    /\ \E allocOk \in BOOLEAN :
          LET r == add_student(students, students_capacity, id, name, allocOk)
          IN  /\ students' = r.arr
              /\ students_capacity' = r.cap
              /\ pc' = IF r.ok THEN "menu" ELSE "aborted"
              /\ pre' = students
              /\ last' = [NoLast EXCEPT !.op = "add", !.id = id, !.name = name,
                                        !.ret = r.ret]
    /\ UNCHANGED <<ub_outcome, data_file, heap>>

DeleteStudent(id) ==
    /\ pc = "menu"
    /\ LET r == delete_student(students, id)
       IN  /\ students' = r.arr
           /\ pre' = students
           /\ last' = [NoLast EXCEPT !.op = "delete", !.id = id, !.ret = r.ret,
                                     !.idx = index_of_id(students, id)]
    /\ UNCHANGED <<students_capacity, pc, ub_outcome, data_file, heap>>

UpdateStudentName(id, name) ==
    /\ pc = "menu"
    /\ LET r == update_student_name(students, id, name)
       IN  /\ students' = r.arr
           /\ pre' = students
           /\ last' = [NoLast EXCEPT !.op = "update", !.id = id, !.name = name,
                                     !.ret = r.ret]
    /\ UNCHANGED <<students_capacity, pc, ub_outcome, data_file, heap>>

\* maxTotal caps the grades the model stores
AddGradeToStudent(id, grade, maxTotal) ==
    /\ pc = "menu"
    /\ index_of_id(students, id) = -1 \/ TotalGrades(students) < maxTotal
    /\ \E allocOk \in BOOLEAN :
          LET r == add_grade_to_student(students, id, grade, allocOk)
          IN  /\ students' = r.arr
              /\ pc' = IF r.ok THEN "menu" ELSE "aborted"
              /\ pre' = students
              /\ last' = [NoLast EXCEPT !.op = "grade", !.id = id, !.grade = grade,
                                        !.ret = r.ret]
    /\ UNCHANGED <<students_capacity, ub_outcome, data_file, heap>>

\* some comparison by id of two records of arr overflows
MayOverflow(arr) ==
    \E a, b \in 1..Len(arr) : SubOverflows(arr[a].id, arr[b].id)

\* the outcomes open to a comparison of records of arr by key
UbFor(arr, key) ==
    IF ub_outcome = "unset" /\ key = SORT_BY_ID /\ MayOverflow(arr)
    THEN UbOutcomes ELSE {ub_outcome}

\* the merge_range calls of a merge sort over n elements
MergeCalls(n) == IF n > 1 THEN n - 1 ELSE 0

\* the passes that sort_students makes when the method is bubble sort
BubblePasses(arr, method, key, ub) ==
    IF method = BUBBLE /\ Len(arr) > 1 THEN bubble_outer(arr, 0, key, ub, <<>>).passes
    ELSE <<>>

\* sort_students with every malloc of merge_range succeeding
SortStudents(method, key) ==
    /\ pc = "menu"
    /\ \E ub \in UbFor(students, key) :
          LET r == sort_students(students, method, key, ub, MergeCalls(Len(students)))
          IN  /\ students' = r.arr
              /\ ub_outcome' = ub
              /\ pre' = students
              /\ last' = [NoLast EXCEPT !.op = "sort", !.method = method,
                                        !.key = key, !.ret = r.ok,
                                        !.passes = BubblePasses(students, method, key, ub)]
    /\ UNCHANGED <<students_capacity, pc, data_file, heap>>

\* sort_students by merge sort with a malloc of merge_range failing: exit
SortAbort(key) ==
    /\ pc = "menu"
    /\ \E ub \in UbFor(students, key), fuel \in 0..(MergeCalls(Len(students)) - 1) :
          LET r == sort_students(students, MERGE, key, ub, fuel)
          IN  /\ students' = r.arr
              /\ ub_outcome' = ub
              /\ pre' = students
              /\ last' = [NoLast EXCEPT !.op = "sort", !.method = MERGE,
                                        !.key = key, !.ret = r.ok]
    /\ pc' = "aborted"
    /\ UNCHANGED <<students_capacity, data_file, heap>>

Next ==
    \/ Load
    \/ \E id \in StoreIds, name \in Names : AddStudent(id, name)
    \/ \E id \in StoreIds : DeleteStudent(id)
    \/ \E id \in StoreIds, name \in Names : UpdateStudentName(id, name)
    \/ \E id \in StoreIds, grade \in Grades : AddGradeToStudent(id, grade, MaxGrades)
    \/ \E method \in SortMethods, key \in SortKeys : SortStudents(method, key)
    \/ \E key \in SortKeys : SortAbort(key)

Spec == Init /\ [][Next]_vars

----------------------------------------------------------------------------
(* Search and comparison as operations *)

\* binary_search_by_id_recursive(target, 0, students_count() - 1) on the store as it is
BinarySearch(target) ==
    /\ pc = "menu"
    /\ pre' = students
    /\ last' = [NoLast EXCEPT !.op = "search", !.id = target,
                   !.idx = binary_search_by_id_recursive(students, target, 0,
                                                         Len(students) - 1)]
    /\ UNCHANGED <<students, students_capacity, pc, ub_outcome, data_file, heap>>

\* search_menu: merge sort by id, then the binary search
SearchMenu(target) ==
    /\ pc = "menu"
    /\ \E ub \in UbFor(students, SORT_BY_ID), fuel \in 0..MergeCalls(Len(students)) :
          LET r == sort_students(students, MERGE, SORT_BY_ID, ub, fuel)
          IN  /\ students' = r.arr
              /\ ub_outcome' = ub
              /\ pc' = IF r.ok THEN "menu" ELSE "aborted"
              /\ pre' = students
              /\ last' = [NoLast EXCEPT !.op = "search_menu", !.id = target,
                             !.method = MERGE, !.key = SORT_BY_ID, !.ret = r.ok,
                             !.idx = IF r.ok
                                     THEN binary_search_by_id_recursive(r.arr, target, 0,
                                                                        Len(r.arr) - 1)
                                     ELSE -1]
    /\ UNCHANGED <<students_capacity, data_file, heap>>

\* one call cmp_students(&students[i], &students[j], key)
Compare(i, j, key) ==
    /\ pc = "menu"
    /\ i < Len(students) /\ j < Len(students)
    /\ \E ub \in UbFor(<<At(students, i), At(students, j)>>, key) :
          /\ last' = [NoLast EXCEPT !.op = "cmp", !.i = i, !.j = j, !.key = key,
                          !.res = cmp_students(At(students, i), At(students, j), key, ub)]
          /\ ub_outcome' = ub
    /\ pre' = students
    /\ UNCHANGED <<students, students_capacity, pc, data_file, heap>>

\* class_highest_lowest(&hi, &hi_idx, &lo, &lo_idx) on the store as it is
ClassHighestLowest ==
    /\ pc = "menu"
    /\ LET r == class_highest_lowest(students,
                    [ret |-> FALSE, highest |-> FZero, h_idx |-> -1,
                     lowest |-> FZero, l_idx |-> -1])
       IN  last' = [NoLast EXCEPT !.op = "stats", !.ret = r.ret,
                       !.highest = r.highest, !.h_idx = r.h_idx,
                       !.lowest = r.lowest, !.l_idx = r.l_idx]
    /\ pre' = students
    /\ UNCHANGED <<students, students_capacity, pc, ub_outcome, data_file, heap>>

----------------------------------------------------------------------------
(* Stores drawn as inputs.  Each is a store the program reaches by          *)
(* add_student and add_grade_to_student calls.                              *)

Student(id, name, grades) ==
    recalc_average([id |-> id, name |-> CopyName(name), grades |-> grades,
                    average |-> FZero])

RECURSIVE GrowTo(_, _)
GrowTo(cap, n) == IF n <= cap THEN cap ELSE GrowTo(ensure_capacity(cap, cap), n)

\* the capacity after n successful add_student calls on a fresh store
CapacityFor(n) == GrowTo(0, n)

Injective(q) == \A a, b \in 1..Len(q) : q[a] = q[b] => a = b

IdSeqs(ids, n) == {q \in SeqsUpTo(ids, n) : Injective(q)}

DrawnInit(stores) ==
    /\ students \in stores
    /\ students_capacity = CapacityFor(Len(students))
    /\ pc = "menu"
    /\ ub_outcome = "unset"
    /\ pre = students
    /\ last = NoLast
    /\ data_file = NotWritten
    /\ heap = <<>>

(* SpecGrades: add_grade_to_student calls on a store of two students *)

GradeInputs == {FInt(0), FInt(100), FInt(-100), FNaN}
GradeIds == {1, 2, 3}

InitGrades == DrawnInit({<<Student(1, <<"A">>, <<>>), Student(2, <<"B">>, <<>>)>>})

NextGrades ==
    \E id \in GradeIds, grade \in GradeInputs : AddGradeToStudent(id, grade, MaxGradeSeq)

SpecGrades == InitGrades /\ [][NextGrades]_vars

(* SpecDelete: delete_student calls on stores of up to MaxDeleteLen students *)

DeleteIds == 1..MaxDeleteLen

DeleteStudentOf(id) ==
    Student(id, IF id % 2 = 1 THEN <<"A">> ELSE <<"B">>,
            IF id = 1 THEN <<FInt(100)>> ELSE <<>>)

DeleteInputs ==
    {[x \in 1..Len(q) |-> DeleteStudentOf(q[x])] : q \in IdSeqs(DeleteIds, MaxDeleteLen)}

InitDelete == DrawnInit(DeleteInputs)

NextDelete == \E id \in DeleteIds \cup {0} : DeleteStudent(id)

SpecDelete == InitDelete /\ [][NextDelete]_vars

(* SpecSort: sorting, searching and comparing stores whose ids span int *)

SortIds == {INT_MIN, -2, 0, 1, INT_MAX}

SortInputs ==
    {[x \in 1..Len(q) |-> Student(q[x], <<"A">>, <<>>)] : q \in IdSeqs(SortIds, MaxSortLen)}

InitSort == DrawnInit(SortInputs)

NextSort ==
    \/ \E method \in SortMethods, key \in SortKeys : SortStudents(method, key)
    \/ \E target \in SortIds : BinarySearch(target)
    \/ \E target \in SortIds : SearchMenu(target)
    \/ \E i, j \in 0..(MaxSortLen - 1), key \in SortKeys : Compare(i, j, key)

SpecSort == InitSort /\ [][NextSort]_vars

(* SpecSortAvg: sorting stores of students with one grade each, ids 1..n *)

AvgGrades == {FInt(5), FInt(9), FNaN}

AvgInputs ==
    UNION {{[x \in 1..n |-> Student(x, <<"A">>, <<g[x]>>)] : g \in [1..n -> AvgGrades]}
           : n \in 0..MaxAvgLen}

InitSortAvg == DrawnInit(AvgInputs)

NextSortAvg == \E method \in SortMethods : SortStudents(method, SORT_BY_AVG)

SpecSortAvg == InitSortAvg /\ [][NextSortAvg]_vars

(* SpecAdd: add_student calls on stores of up to MaxAddLen students, so that *)
(* the array grows while it holds records                                  *)

AddIds == 1..(MaxAddLen + 1)

\* the stores with ids 1..n, in the order of their adds
AddInputs == {[x \in 1..n |-> DeleteStudentOf(x)] : n \in 0..MaxAddLen}

AddNames == {<<"C">>}

\* add_student on a store of at most maxLen records
AddStudentTo(id, name, maxLen) ==
    /\ pc = "menu"
    /\ index_of_id(students, id) # -1 \/ Len(students) < maxLen
    /\ \E allocOk \in BOOLEAN :
          LET r == add_student(students, students_capacity, id, name, allocOk)
          IN  /\ students' = r.arr
              /\ students_capacity' = r.cap
              /\ pc' = IF r.ok THEN "menu" ELSE "aborted"
              /\ pre' = students
              /\ last' = [NoLast EXCEPT !.op = "add", !.id = id, !.name = name,
                                        !.ret = r.ret]
    /\ UNCHANGED <<ub_outcome, data_file, heap>>

InitAdd == DrawnInit(AddInputs)

NextAdd == \E id \in AddIds, name \in AddNames : AddStudentTo(id, name, MaxAddLen + 1)

SpecAdd == InitAdd /\ [][NextAdd]_vars

(* SpecLoad: load_students_from_file on files of up to MaxLoadLines lines,  *)
(* lines of a persisted average among them                                 *)

LoadLines ==
    {IdLine(1), IdLine(2), NameLine(SavedSep), GradesLine(<<FInt(100), FInt(0)>>),
     GradesLine(<<FNaN>>), [kind |-> "average", val |-> FInt(77)], CloseLine}

LoadFiles == SeqsUpTo(LoadLines, MaxLoadLines)

\* more allocations than the load of this file asks for: an add_student and
\* two add_grade_to_student a line at most
AllocsOf(file) == 3 * Len(file)

\* main: init_students, load_students_from_file on this file with every
\* allocation succeeding, then the menu
LoadFrom(file) ==
    /\ pc = "boot"
    /\ LET r == load_students_from_file(file, AllocsOf(file))
       IN  /\ students' = r.arr
           /\ students_capacity' = r.cap
           /\ pc' = IF r.ok THEN "menu" ELSE "aborted"
           /\ pre' = students
           /\ last' = [NoLast EXCEPT !.op = "load", !.ret = r.ok, !.file = file]
    /\ UNCHANGED <<ub_outcome, data_file, heap>>

NextLoad == \E file \in LoadFiles : LoadFrom(file)

SpecLoad == Init /\ [][NextLoad]_vars

(* SpecAlloc: add_student, add_grade_to_student and merge sort with failing *)
(* allocations, on stores of up to MaxAllocLen students                    *)

AllocIds == 1..MaxAllocLen

AllocInputs ==
    {[x \in 1..Len(q) |-> DeleteStudentOf(q[x])] : q \in IdSeqs(AllocIds, MaxAllocLen)}

InitAlloc == DrawnInit(AllocInputs)

NextAlloc ==
    \/ \E name \in AddNames : AddStudentTo(MaxAllocLen + 1, name, MaxAllocLen + 1)
    \/ \E id \in AllocIds : AddGradeToStudent(id, FInt(100), MaxAllocGrades)
    \/ \E key \in SortKeys : SortAbort(key)

SpecAlloc == InitAlloc /\ [][NextAlloc]_vars

(* SpecFrame: every store operation on stores of up to MaxFrameLen students *)
(* holding up to MaxFrameGrades grades                                     *)

FrameIds == 1..MaxFrameLen
FrameNames == {<<"B">>}

InitFrame == DrawnInit({<<>>})

NextFrame ==
    \/ \E id \in FrameIds, name \in AddNames : AddStudentTo(id, name, MaxFrameLen)
    \/ \E id \in FrameIds, grade \in Grades : AddGradeToStudent(id, grade, MaxFrameGrades)
    \/ \E id \in FrameIds, name \in FrameNames : UpdateStudentName(id, name)
    \/ \E id \in FrameIds : DeleteStudent(id)
    \/ \E method \in SortMethods, key \in SortKeys : SortStudents(method, key)
    \/ \E key \in SortKeys : SortAbort(key)

SpecFrame == InitFrame /\ [][NextFrame]_vars

(* SpecStats: class_highest_lowest on stores of students with one grade each *)

StatsInputs ==
    UNION {{[x \in 1..n |-> Student(x, <<"A">>, <<g[x]>>)] : g \in [1..n -> AvgGrades]}
           : n \in 0..MaxStatsLen}

InitStats == DrawnInit(StatsInputs)

NextStats == ClassHighestLowest

SpecStats == InitStats /\ [][NextStats]_vars

----------------------------------------------------------------------------
(* Persistence: save_students_to_file, and the menu handlers that call it  *)

\* n/d rounded to the nearest integer, halves to the even one (d > 0)
RoundHalfEven(n, d) ==
    LET q == n \div d
        r == n % d
    IN  IF 2 * r < d THEN q
        ELSE IF 2 * r > d THEN q + 1
        ELSE IF q % 2 = 0 THEN q ELSE q + 1

\* the float that "%.2f" prints: two decimals; "nan" for NaN
Fmt2(f) == IF f.nan THEN FNaN ELSE FNorm(RoundHalfEven(f.num * 100, f.den), 100)

OtherLine == [kind |-> "other"]
SavedNameLine(name) == [kind |-> "name", sep |-> SavedSep, closed |-> TRUE, text |-> name]
AverageLine(avg) == [kind |-> "average", val |-> avg]

\* the lines that the body of the for loop writes for one student
SavedStudent(s) ==
    <<OtherLine, IdLine(s.id), SavedNameLine(s.name),
      GradesLine([k \in 1..Len(s.grades) |-> Fmt2(s.grades[k])]),
      AverageLine(Fmt2(s.average)), CloseLine>>

RECURSIVE SavedStudents(_, _)
SavedStudents(arr, i) ==
    IF i < Len(arr) THEN SavedStudent(At(arr, i)) \o SavedStudents(arr, i + 1) ELSE <<>>

\* mutant: the file is emptied although it could not be opened
save_students_truncates(arr, file, openOk) ==
    IF ~openOk THEN [ret |-> FALSE, file |-> <<>>]
    ELSE [ret |-> TRUE,
          file |-> <<OtherLine, OtherLine>> \o SavedStudents(arr, 0) \o <<OtherLine, CloseLine>>]

\* openOk: whether fopen(DATA_FILE, "w") succeeds; file: what the process
\* has written so far
save_students_to_file(arr, file, openOk) ==
    IF ~openOk THEN [ret |-> FALSE, file |-> file]
    ELSE [ret |-> TRUE,
          file |-> <<OtherLine, OtherLine>> \o SavedStudents(arr, 0) \o <<OtherLine, CloseLine>>]

\* free_students: every grade buffer and the array are released
free_students(arr, cap) == [arr |-> <<>>, cap |-> 0]

\* mutant: the store is released before it is saved
exit_choice_frees_first(arr, cap, file, openOk) ==
    LET f == free_students(arr, cap)
        sv == save_students_to_file(f.arr, file, openOk)
    IN  [arr |-> f.arr, cap |-> f.cap, file |-> sv.file, saves |-> 1, save_ret |-> sv.ret]

\* case 0 of run_menu: save, free, return
exit_choice(arr, cap, file, openOk) ==
    LET sv == save_students_to_file(arr, file, openOk)
        f == free_students(arr, cap)
    IN  [arr |-> f.arr, cap |-> f.cap, file |-> sv.file, saves |-> 1, save_ret |-> sv.ret]

\* the save that a handler makes after a mutation that succeeded
SaveAfter(done, arr, openOk) ==
    IF done THEN LET sv == save_students_to_file(arr, data_file, openOk)
                 IN  [file |-> sv.file, saves |-> 1, save_ret |-> sv.ret]
    ELSE [file |-> data_file, saves |-> 0, save_ret |-> FALSE]

AddStudentMenu(id, name, maxLen) ==
    /\ pc = "menu"
    /\ index_of_id(students, id) # -1 \/ Len(students) < maxLen
    /\ \E allocOk, openOk \in BOOLEAN :
          LET valid == Len(name) # 0
              r == IF valid
                   THEN add_student(students, students_capacity, id, name, allocOk)
                   ELSE [ret |-> FALSE, arr |-> students, cap |-> students_capacity,
                         ok |-> TRUE]
              sv == SaveAfter(r.ret, r.arr, openOk)
          IN  /\ students' = r.arr
              /\ students_capacity' = r.cap
              /\ pc' = IF r.ok THEN "menu" ELSE "aborted"
              /\ data_file' = sv.file
              /\ last' = [NoLast EXCEPT !.op = "add_menu", !.id = id, !.name = name,
                              !.ret = r.ret, !.saves = sv.saves,
                              !.save_ret = sv.save_ret]
    /\ pre' = students
    /\ UNCHANGED <<ub_outcome, heap>>

AddGradeMenu(id, grade, maxTotal) ==
    /\ pc = "menu"
    /\ index_of_id(students, id) = -1 \/ TotalGrades(students) < maxTotal
    /\ \E allocOk, openOk \in BOOLEAN :
          LET valid == ~(FLt(grade, FInt(0)) \/ FGt(grade, FInt(100)))
              r == IF valid THEN add_grade_to_student(students, id, grade, allocOk)
                   ELSE [ret |-> FALSE, arr |-> students, ok |-> TRUE]
              sv == SaveAfter(r.ret, r.arr, openOk)
          IN  /\ students' = r.arr
              /\ pc' = IF r.ok THEN "menu" ELSE "aborted"
              /\ data_file' = sv.file
              /\ last' = [NoLast EXCEPT !.op = "grade_menu", !.id = id, !.grade = grade,
                              !.ret = r.ret, !.saves = sv.saves,
                              !.save_ret = sv.save_ret]
    /\ pre' = students
    /\ UNCHANGED <<students_capacity, ub_outcome, heap>>

DeleteMenu(id) ==
    /\ pc = "menu"
    /\ \E openOk \in BOOLEAN :
          LET r == delete_student(students, id)
              sv == SaveAfter(r.ret, r.arr, openOk)
          IN  /\ students' = r.arr
              /\ data_file' = sv.file
              /\ last' = [NoLast EXCEPT !.op = "delete_menu", !.id = id, !.ret = r.ret,
                              !.saves = sv.saves, !.save_ret = sv.save_ret]
    /\ pre' = students
    /\ UNCHANGED <<students_capacity, pc, ub_outcome, heap>>

UpdateMenu(id, name) ==
    /\ pc = "menu"
    /\ \E openOk \in BOOLEAN :
          LET valid == Len(name) # 0
              r == IF valid THEN update_student_name(students, id, name)
                   ELSE [ret |-> FALSE, arr |-> students]
              sv == SaveAfter(r.ret, r.arr, openOk)
          IN  /\ students' = r.arr
              /\ data_file' = sv.file
              /\ last' = [NoLast EXCEPT !.op = "update_menu", !.id = id, !.name = name,
                              !.ret = r.ret, !.saves = sv.saves,
                              !.save_ret = sv.save_ret]
    /\ pre' = students
    /\ UNCHANGED <<students_capacity, pc, ub_outcome, heap>>

\* choice 0: the loop returns and main ends
ExitMenu ==
    /\ pc = "menu"
    /\ \E openOk \in BOOLEAN :
          LET r == exit_choice(students, students_capacity, data_file, openOk)
          IN  /\ students' = r.arr
              /\ students_capacity' = r.cap
              /\ data_file' = r.file
              /\ last' = [NoLast EXCEPT !.op = "exit", !.ret = TRUE, !.saves = r.saves,
                              !.save_ret = r.save_ret]
    /\ pc' = "exited"
    /\ pre' = students
    /\ UNCHANGED <<ub_outcome, heap>>

(* SpecMenu: the menu commands from the empty store *)

MenuIds == 1..MaxMenuStudents
MenuNames == {<<>>, <<"A">>}
\* what read_float returns: strtof reads "nan" as NaN
MenuGrades == {FInt(-1), FInt(100), FInt(101), FNaN}

InitMenu == DrawnInit({<<>>})

NextMenu ==
    \/ \E id \in MenuIds, name \in MenuNames : AddStudentMenu(id, name, MaxMenuStudents)
    \/ \E id \in MenuIds, grade \in MenuGrades : AddGradeMenu(id, grade, MaxMenuGrades)
    \/ \E id \in MenuIds : DeleteMenu(id)
    \/ \E id \in MenuIds, name \in MenuNames : UpdateMenu(id, name)
    \/ ExitMenu

SpecMenu == InitMenu /\ [][NextMenu]_vars

(* SpecRound: a run of the menu that ends with the exit command, and the   *)
(* next run of the program, which loads what the exit saved                *)

\* ids that read_int returns, a negative one among them
RoundIds == {-1, 1, 2}
RoundNames == {<<"A">>}
\* 0.125 is a float with three decimals: "%.2f" cannot print it exactly
RoundGrades == {FInt(100), FNorm(1, 8)}

InitRound == DrawnInit({<<>>})

\* main of the next run, after an exit whose save succeeded: init_students,
\* load_students_from_file on the file that the exit wrote, with every
\* allocation succeeding, then the menu.  pre keeps the store that was saved.
Restart ==
    /\ pc = "exited"
    /\ last.op = "exit" /\ last.save_ret
    /\ LET r == load_students_from_file(data_file, AllocsOf(data_file))
       IN  /\ students' = r.arr
           /\ students_capacity' = r.cap
           /\ pc' = IF r.ok THEN "menu" ELSE "aborted"
           /\ last' = [NoLast EXCEPT !.op = "restart", !.ret = r.ok, !.file = data_file]
    /\ UNCHANGED <<ub_outcome, pre, data_file, heap>>

NextRound ==
    \/ \E id \in RoundIds, name \in RoundNames : AddStudentMenu(id, name, MaxRoundStudents)
    \/ \E id \in RoundIds, grade \in RoundGrades : AddGradeMenu(id, grade, MaxRoundGrades)
    \/ ExitMenu
    \/ Restart

SpecRound == InitRound /\ [][NextRound]_vars

(* SpecSession: one run of the menu from the empty store with no data file, *)
(* every write of the file succeeding; sort and search among the commands   *)

SessionIds == 1..MaxSessionStudents
SessionNames == {<<>>, <<"A">>, <<"B">>}
\* grades that read_float returns: out of range, whole, and with three decimals
SessionGrades == {FInt(101), FInt(100), FNorm(1, 8)}

InitSession == DrawnInit({<<>>})

\* fopen(DATA_FILE, "w") succeeds in every save of the step
WritesSucceed == last'.saves = 1 => last'.save_ret

NextSession ==
    \/ \E id \in SessionIds, name \in SessionNames :
          AddStudentMenu(id, name, MaxSessionStudents) /\ WritesSucceed
    \/ \E id \in SessionIds, grade \in SessionGrades :
          AddGradeMenu(id, grade, MaxSessionGrades) /\ WritesSucceed
    \/ \E id \in SessionIds : DeleteMenu(id) /\ WritesSucceed
    \/ \E id \in SessionIds, name \in SessionNames : UpdateMenu(id, name) /\ WritesSucceed
    \/ \E method \in SortMethods, key \in SortKeys : SortStudents(method, key)
    \/ \E id \in SessionIds : SearchMenu(id)

SpecSession == InitSession /\ [][NextSession]_vars

----------------------------------------------------------------------------
(* Grade buffers.  In SpecOwn a record carries, next to the grades it      *)
(* holds, the pointer s->grades as the field buf: NULL or the number of a  *)
(* buffer of heap.  The operators of the store move records whole, so buf  *)
(* travels with its record through delete_student and the sorts.           *)

NULL == 0

\* s with its pointer s->grades set to b
WithBuffer(s, b) ==
    [id |-> s.id, name |-> s.name, grades |-> s.grades, average |-> s.average,
     buf |-> b]

\* realloc(p, n) that succeeds: a new buffer for NULL, else buffer p resized
\* (the program keeps the one pointer that realloc returns)
realloc(h, p) ==
    IF p = NULL THEN [heap |-> Append(h, 0), ptr |-> Len(h) + 1]
    ELSE [heap |-> h, ptr |-> p]

\* free(p): nothing for NULL, else one more release of buffer p
free(h, p) == IF p = NULL THEN h ELSE [h EXCEPT ![p] = @ + 1]

RECURSIVE free_grades(_, _, _)
\* the for loop of free_students from i: free(students[i].grades)
free_grades(h, arr, i) ==
    IF i < Len(arr) THEN free_grades(free(h, At(arr, i).buf), arr, i + 1) ELSE h

\* mutant: the buffer is freed after the shift, through students[idx] again
delete_student_buffer_after_shift(arr, id) ==
    LET idx == index_of_id(arr, id)
    IN  IF idx = -1 THEN NULL ELSE At(shift_left(arr, idx), idx).buf

\* the pointer that delete_student passes to free: students[idx].grades
delete_student_buffer(arr, id) ==
    LET idx == index_of_id(arr, id)
    IN  IF idx = -1 THEN NULL ELSE At(arr, idx).buf

\* add_student: the new record starts with s->grades = NULL
AddStudentBuf(id, name) ==
    /\ pc = "menu"
    /\ index_of_id(students, id) # -1 \/ Len(students) < MaxOwnStudents
    /\ \E allocOk \in BOOLEAN :
          LET r == add_student(students, students_capacity, id, name, allocOk)
              n == Len(r.arr) - 1
          IN  /\ students' = IF r.ret THEN Put(r.arr, n, WithBuffer(At(r.arr, n), NULL))
                             ELSE r.arr
              /\ students_capacity' = r.cap
              /\ pc' = IF r.ok THEN "menu" ELSE "aborted"
              /\ last' = [NoLast EXCEPT !.op = "add", !.id = id, !.name = name,
                                        !.ret = r.ret]
    /\ pre' = students
    /\ UNCHANGED <<ub_outcome, data_file, heap>>

\* add_grade_to_student: s->grades = realloc(s->grades, ..), then the append
AddGradeBuf(id, grade) ==
    /\ pc = "menu"
    /\ index_of_id(students, id) = -1 \/ TotalGrades(students) < MaxOwnGrades
    /\ Len(heap) < MaxOwnBuffers
    /\ \E allocOk \in BOOLEAN :
          LET idx == index_of_id(students, id)
              r == add_grade_to_student(students, id, grade, allocOk)
              a == IF r.ret THEN realloc(heap, At(students, idx).buf)
                   ELSE [heap |-> heap, ptr |-> NULL]
          IN  /\ students' = IF r.ret
                             THEN Put(r.arr, idx, [At(r.arr, idx) EXCEPT !.buf = a.ptr])
                             ELSE r.arr
              /\ heap' = a.heap
              /\ pc' = IF r.ok THEN "menu" ELSE "aborted"
              /\ last' = [NoLast EXCEPT !.op = "grade", !.id = id, !.grade = grade,
                                        !.ret = r.ret]
    /\ pre' = students
    /\ UNCHANGED <<students_capacity, ub_outcome, data_file>>

\* delete_student: free(students[idx].grades), then the shift
DeleteStudentBuf(id) ==
    /\ pc = "menu"
    /\ LET r == delete_student(students, id)
       IN  /\ students' = r.arr
           /\ heap' = IF r.ret THEN free(heap, delete_student_buffer(students, id))
                      ELSE heap
           /\ last' = [NoLast EXCEPT !.op = "delete", !.id = id, !.ret = r.ret]
    /\ pre' = students
    /\ UNCHANGED <<students_capacity, pc, ub_outcome, data_file>>

\* case 0 of run_menu: the save, then free_students with its free of every
\* grade buffer of the live range
ExitMenuBuf ==
    /\ pc = "menu"
    /\ \E openOk \in BOOLEAN :
          LET r == exit_choice(students, students_capacity, data_file, openOk)
          IN  /\ students' = r.arr
              /\ students_capacity' = r.cap
              /\ data_file' = r.file
              /\ last' = [NoLast EXCEPT !.op = "exit", !.ret = TRUE, !.saves = r.saves,
                              !.save_ret = r.save_ret]
    /\ heap' = free_grades(heap, students, 0)
    /\ pc' = "exited"
    /\ pre' = students
    /\ UNCHANGED ub_outcome

(* SpecOwn: add, addGrade, delete, the sorts and free_students from the    *)
(* empty store, with the grade buffers followed                            *)

OwnIds == 1..MaxOwnStudents
OwnNames == {<<"A">>}
OwnGrades == {FInt(100)}

InitOwn == DrawnInit({<<>>})

NextOwn ==
    \/ \E id \in OwnIds, name \in OwnNames : AddStudentBuf(id, name)
    \/ \E id \in OwnIds, grade \in OwnGrades : AddGradeBuf(id, grade)
    \/ \E id \in OwnIds : DeleteStudentBuf(id)
    \/ \E method \in SortMethods, key \in SortKeys : SortStudents(method, key)
    \/ \E key \in SortKeys : SortAbort(key)
    \/ ExitMenuBuf

SpecOwn == InitOwn /\ [][NextOwn]_vars

----------------------------------------------------------------------------
(* Vocabulary of the properties *)

HasId(arr, id) == \E k \in 1..Len(arr) : arr[k].id = id

\* the position (1-based) of the record with this id
PosOf(arr, id) == CHOOSE k \in 1..Len(arr) : arr[k].id = id

\* arr without its p-th element, the others in their order
RemoveAt(arr, p) == [x \in 1..(Len(arr) - 1) |-> IF x < p THEN arr[x] ELSE arr[x + 1]]

RECURSIVE SumLeftToRight(_, _)
SumLeftToRight(grades, n) ==
    IF n = 0 THEN FZero ELSE FAdd(SumLeftToRight(grades, n - 1), grades[n])

\* the arithmetic mean of a non-empty grade sequence
MeanOf(grades) == FDivInt(SumLeftToRight(grades, Len(grades)), Len(grades))

\* a == b of C on floats
FEq(a, b) == ~a.nan /\ ~b.nan /\ a = b

Count(arr, x) == Cardinality({k \in 1..Len(arr) : arr[k] = x})

IsPermutation(a, b) ==
    /\ Len(a) = Len(b)
    /\ \A k \in 1..Len(a) : Count(a, a[k]) = Count(b, a[k])

KeyInOrder(x, y, key) ==
    IF key = SORT_BY_ID THEN x.id <= y.id ELSE ~FGt(x.average, y.average)

NonDecreasing(arr, key) ==
    \A a, b \in 1..Len(arr) : a < b => KeyInOrder(arr[a], arr[b], key)

\* what binarySearchById owes for target on arr
SearchResultRight(arr, target, idx) ==
    IF HasId(arr, target)
    THEN idx >= 0 /\ idx < Len(arr) /\ At(arr, idx).id = target
    ELSE idx = -1

----------------------------------------------------------------------------
(* C1: in every state reached by load, add, delete, updateName, addGrade   *)
(* and sort (any method, any key), the ids of the stored records are       *)
(* pairwise distinct.                                                      *)
C1_IdsDistinct ==
    \A a, b \in 1..Len(students) : students[a].id = students[b].id => a = b

\* a full store has just refused an add of an id it holds
C1_Witness ==
    /\ last.op = "add" /\ ~last.ret
    /\ Len(students) = MaxStudents
    /\ HasId(students, last.id)

(* C2: an add whose id is held by the store (was used by an earlier add)   *)
(* returns false and leaves the store unchanged: same count, same records  *)
(* in the same order with their names, grades and averages.                *)
C2_DuplicateAddRejected ==
    (last.op = "add" /\ HasId(pre, last.id)) =>
        /\ ~last.ret
        /\ students = pre
        /\ pc = "menu"

\* the refused add carried another name than the record that holds the id
C2_Witness ==
    /\ last.op = "add" /\ HasId(pre, last.id) /\ ~last.ret
    /\ pre[PosOf(pre, last.id)].name # CopyName(last.name)
    /\ Len(pre) = MaxStudents

(* C3 as stated: every student's average is the arithmetic mean of its     *)
(* grades, and the average is 0 if and only if no grade has been added.    *)
C3_Claim ==
    \A k \in 1..Len(students) :
        LET s == students[k]
        IN  /\ s.grades # <<>> => s.average = MeanOf(s.grades)
            /\ s.average = FZero <=> s.grades = <<>>

(* C3 amended: after any sequence of addGrade calls the student's grades   *)
(* are the grades added, in order, its average is their arithmetic mean    *)
(* (NaN as soon as one grade is NaN), and the average is 0 when no grade   *)
(* has been added; an average of 0 does not tell that there is no grade.   *)
C3_AverageIsMean ==
    /\ \A k \in 1..Len(students) :
          LET s == students[k]
          IN  /\ s.grades # <<>> => s.average = MeanOf(s.grades)
              /\ s.grades = <<>> => s.average = FZero
    /\ (last.op = "grade" /\ last.ret) =>
          LET k == PosOf(students, last.id)
          IN  /\ students[k].grades = Append(pre[k].grades, last.grade)
              /\ \A x \in 1..Len(students) : x # k => students[x] = pre[x]

\* a third grade has been added and the average is a number other than 0
C3_Witness ==
    /\ last.op = "grade" /\ last.ret
    /\ LET s == students[PosOf(students, last.id)]
       IN  /\ Len(s.grades) = MaxGradeSeq
           /\ ~s.average.nan
           /\ s.average # FZero
           /\ s.average.den # 1

(* C4: a successful delete(id) removes exactly the record with that id,    *)
(* count decreases by one, and the other records keep their relative order *)
(* (shift left), wherever the deleted record was.                          *)
C4_DeleteShiftsLeft ==
    (last.op = "delete" /\ last.ret) =>
        /\ HasId(pre, last.id)
        /\ Len(students) = Len(pre) - 1
        /\ students = RemoveAt(pre, PosOf(pre, last.id))
        /\ ~HasId(students, last.id)

\* a record in the middle has been deleted, with two records behind it
C4_Witness ==
    /\ last.op = "delete" /\ last.ret
    /\ Len(pre) = MaxDeleteLen
    /\ PosOf(pre, last.id) = 2

(* C5: delete, updateName and addGrade with an id that is not in the store *)
(* return false and leave the whole store unchanged; the process keeps     *)
(* running.                                                                *)
C5_AbsentIdRejected ==
    (last.op \in {"delete", "update", "grade"} /\ ~HasId(pre, last.id)) =>
        /\ ~last.ret
        /\ students = pre
        /\ pc = "menu"

\* a store holding a graded record has just refused a delete of an absent id
C5_Witness ==
    /\ last.op = "delete" /\ ~last.ret
    /\ ~HasId(pre, last.id)
    /\ Len(pre) >= 1 /\ TotalGrades(pre) >= 1

(* C6 as stated: after sorting by id (any method), binarySearchById(target,*)
(* 0, count-1) returns the index of target for every id in the store and   *)
(* -1 for every id not in it, the empty store included.                    *)
C6_Claim ==
    [][(/\ last.op = "sort" /\ last.key = SORT_BY_ID /\ last.ret
        /\ last'.op = "search")
       => SearchResultRight(students', last'.id, last'.idx)]_vars

(* C7 as stated: with each of the three methods, sorting by average keeps  *)
(* any two records of equal average in the relative order they had.        *)
C7_Claim ==
    (last.op = "sort" /\ last.key = SORT_BY_AVG /\ last.ret) =>
        \A a, b \in 1..Len(pre) :
            (a < b /\ FEq(pre[a].average, pre[b].average)) =>
                PosOf(students, pre[a].id) < PosOf(students, pre[b].id)

(* C8 as stated: after sort_students with any method and any key the store *)
(* is in non-decreasing order of the key and is a permutation of the store *)
(* before the sort, every record intact.                                   *)
C8_Claim ==
    (last.op = "sort" /\ last.ret) =>
        /\ IsPermutation(students, pre)
        /\ NonDecreasing(students, last.key)

(* C9 as stated: the by-id comparison is negative exactly when a.id <      *)
(* b.id, zero exactly when they are equal and positive exactly when a.id > *)
(* b.id, for every pair of 32-bit ids, so that sorting by id yields        *)
(* ascending ids.                                                          *)
C9_Claim ==
    /\ (last.op = "cmp" /\ last.key = SORT_BY_ID) =>
          LET a == At(students, last.i).id
              b == At(students, last.j).id
          IN  /\ last.res < 0 <=> a < b
              /\ last.res = 0 <=> a = b
              /\ last.res > 0 <=> a > b
    /\ (last.op = "sort" /\ last.key = SORT_BY_ID /\ last.ret) =>
          NonDecreasing(students, SORT_BY_ID)

(* C10 as stated: sorting twice in a row with the same key, with the same  *)
(* or another method, yields the order that sorting once yields.           *)
C10_Claim ==
    [][(/\ last.op = "sort" /\ last.ret
        /\ last'.op = "sort" /\ last'.ret
        /\ last'.key = last.key)
       => students' = students]_vars

(* C11 as stated: the three sort methods are interchangeable: for every    *)
(* store content and every key, bubble, insertion and merge sort leave the *)
(* store in the identical final order.                                     *)
C11_Claim ==
    (last.op = "sort" /\ last.ret) =>
        \A method \in SortMethods :
            sort_students(pre, method, last.key, ub_outcome,
                          MergeCalls(Len(pre))).arr = students

\* a <= b in the order of the numbers, a value being equal to itself
FLe(a, b) == a = b \/ FLt(a, b)

\* v is an average of arr and no average that is a number lies beyond it
IsHighest(arr, v) ==
    /\ \E k \in 1..Len(arr) : arr[k].average = v
    /\ \A k \in 1..Len(arr) : ~arr[k].average.nan => FLe(arr[k].average, v)

IsLowest(arr, v) ==
    /\ \E k \in 1..Len(arr) : arr[k].average = v
    /\ \A k \in 1..Len(arr) : ~arr[k].average.nan => FLe(v, arr[k].average)

\* idx is the smallest index (0-based) whose average is v
FirstWith(arr, v, idx) ==
    /\ idx >= 0 /\ idx < Len(arr)
    /\ At(arr, idx).average = v
    /\ \A k \in 0..(idx - 1) : At(arr, k).average # v

(* C12 as stated: on a non-empty store highestLowest returns true with     *)
(* highest the maximum and lowest the minimum average over all records,    *)
(* each index the smallest index attaining that value; on an empty store   *)
(* it returns false.  Records whose average is NaN are left out of "over   *)
(* all records" here: the reading most favourable to the code.             *)
C12_Claim ==
    last.op = "stats" =>
        IF Len(students) = 0 THEN ~last.ret
        ELSE /\ last.ret
             /\ IsHighest(students, last.highest)
             /\ IsLowest(students, last.lowest)
             /\ FirstWith(students, last.highest, last.h_idx)
             /\ FirstWith(students, last.lowest, last.l_idx)

(* C13: a successful add(id, name) appends the new record at the last      *)
(* position with an empty grade sequence and average 0, count grows by     *)
(* exactly one, and every record stored before keeps its position and its  *)
(* content.                                                                *)
C13_AddAppends ==
    (last.op = "add" /\ last.ret) =>
        /\ Len(students) = Len(pre) + 1
        /\ \A k \in 1..Len(pre) : students[k] = pre[k]
        /\ students[Len(students)].id = last.id
        /\ students[Len(students)].name = CopyName(last.name)
        /\ students[Len(students)].grades = <<>>
        /\ students[Len(students)].average = FZero

\* the add made the full array grow while it held a graded record
C13_Witness ==
    /\ last.op = "add" /\ last.ret
    /\ Len(pre) = MaxAddLen
    /\ students_capacity > CapacityFor(Len(pre))
    /\ TotalGrades(pre) >= 1

\* the lines of a save of arr that could open the file
SaveOf(arr) == save_students_to_file(arr, <<>>, TRUE).file

(* C14: choosing exit performs exactly one save, of the store as it is at  *)
(* that moment and before the store is released; the store is then         *)
(* released, the loop returns and no command is processed afterwards.      *)
C14_ExitSavesThenFrees ==
    /\ last.op = "exit" =>
          /\ last.saves = 1
          /\ last.save_ret => data_file = SaveOf(pre)
          /\ students = <<>> /\ students_capacity = 0
          /\ pc = "exited"
    /\ pc = "exited" => last.op = "exit"

\* the exit saved a store that held a graded record
C14_Witness ==
    /\ last.op = "exit" /\ last.save_ret
    /\ Len(pre) >= 1 /\ TotalGrades(pre) >= 1
    /\ data_file = SaveOf(pre)

(* C15: when save cannot open the file for writing it returns false, the   *)
(* file keeps its contents, and the store is as the handler's mutation     *)
(* left it: the mutation is not rolled back.                               *)
C15_SaveFailureKeepsFile ==
    [][(last'.saves = 1 /\ ~last'.save_ret) =>
          /\ data_file' = data_file
          /\ last'.op = "add_menu" =>
                /\ Len(students') = Len(students) + 1
                /\ students'[Len(students')].id = last'.id
          /\ last'.op = "grade_menu" =>
                LET k == PosOf(students, last'.id)
                IN  students'[k].grades = Append(students[k].grades, last'.grade)
          /\ last'.op = "delete_menu" =>
                HasId(students, last'.id) /\ ~HasId(students', last'.id)
          /\ last'.op = "update_menu" =>
                students'[PosOf(students, last'.id)].name = CopyName(last'.name)
          /\ last'.op = "exit" => students' = <<>>]_vars

\* an add was kept in the store while the file still holds an earlier save
C15_Witness ==
    /\ last.op = "add_menu" /\ last.ret
    /\ last.saves = 1 /\ ~last.save_ret
    /\ data_file # NotWritten
    /\ data_file # SaveOf(students)
    /\ Len(students) = Len(pre) + 1

\* a grade in 0..100
InRange(g) == ~g.nan /\ ~FLt(g, FInt(0)) /\ ~FGt(g, FInt(100))

(* C20 as stated: in every state reached from the empty store through menu *)
(* commands only, every stored grade lies in 0..100 and every stored name  *)
(* is non-empty; an add-grade command with a grade outside 0..100 and an   *)
(* add or update command with an empty name leave the store unchanged and  *)
(* trigger no save.                                                        *)
C20_Claim ==
    /\ \A k \in 1..Len(students) :
          /\ students[k].name # <<>>
          /\ \A g \in 1..Len(students[k].grades) : InRange(students[k].grades[g])
    /\ (last.op = "grade_menu" /\ ~InRange(last.grade)) =>
          students = pre /\ last.saves = 0
    /\ (last.op \in {"add_menu", "update_menu"} /\ last.name = <<>>) =>
          students = pre /\ last.saves = 0

\* the file without its lines of a persisted average
RECURSIVE WithoutAverage(_)
WithoutAverage(file) ==
    IF file = <<>> THEN <<>>
    ELSE IF Head(file).kind = "average" THEN WithoutAverage(Tail(file))
    ELSE <<Head(file)>> \o WithoutAverage(Tail(file))

(* C16: after load every loaded student's average is the mean of the       *)
(* grades replayed for it through addGrade (0 if none), whatever the       *)
(* persisted average lines hold: the store loaded is the store that the    *)
(* file without those lines gives; the records are those that add and      *)
(* addGrade build (distinct ids, non-empty names).                         *)
C16_LoadRecomputesAverage ==
    (last.op = "load" /\ last.ret) =>
        /\ \A k \in 1..Len(students) :
              /\ students[k].average =
                    IF students[k].grades = <<>> THEN FZero
                    ELSE MeanOf(students[k].grades)
              /\ students[k].name # <<>>
        /\ \A a, b \in 1..Len(students) : students[a].id = students[b].id => a = b
        /\ students =
              load_students_from_file(WithoutAverage(last.file), AllocsOf(last.file)).arr

\* a student was loaded with grades from a file whose average line holds
\* another value than their mean
C16_Witness ==
    /\ last.op = "load" /\ last.ret
    /\ \E k \in 1..Len(last.file) :
          /\ last.file[k].kind = "average"
          /\ \E x \in 1..Len(students) :
                /\ students[x].grades # <<>>
                /\ students[x].average # last.file[k].val
                /\ k > 1 /\ last.file[k - 1].kind = "grades"

(* C17 as stated: when an allocation fails inside add, addGrade or merge   *)
(* sort the process terminates at once, and at that point the store equals *)
(* the store before the failing operation began.                           *)
C17_Claim ==
    pc = "aborted" => students = pre

(* C17 amended: when an allocation fails inside add or addGrade the        *)
(* process terminates at once with the store equal to the store before the *)
(* operation; when one fails inside merge sort the process terminates at   *)
(* once with the same records, each intact, in an order that the merges    *)
(* already done by that sort may have changed.                             *)
C17_AllocFailureKeepsRecords ==
    pc = "aborted" =>
        /\ ~last.ret
        /\ last.op \in {"add", "grade", "sort"}
        /\ last.op \in {"add", "grade"} => students = pre
        /\ last.op = "sort" => IsPermutation(students, pre)

\* a merge sort ended the process after it had reordered the store
C17_Witness ==
    /\ pc = "aborted" /\ last.op = "sort"
    /\ students # pre
    /\ Len(pre) = MaxAllocLen

(* C18 as stated: bubble sort on an input already in non-decreasing key    *)
(* order performs exactly one pass over the adjacent pairs, makes no swap  *)
(* and exits; in general it stops after the first full pass that performs  *)
(* no swap.  Stated for stores of two records or more, which have adjacent *)
(* pairs.                                                                  *)
C18_Claim ==
    (last.op = "sort" /\ last.method = BUBBLE /\ Len(pre) >= 2) =>
        /\ NonDecreasing(pre, last.key) =>
              last.passes = <<FALSE>> /\ students = pre
        /\ \A k \in 1..(Len(last.passes) - 1) : last.passes[k]

\* g is an initial part of h
IsPrefix(g, h) == Len(g) <= Len(h) /\ \A k \in 1..Len(g) : g[k] = h[k]

(* C19: grades are append-only per student: over every step in which an id *)
(* stays in the store, the grade sequence of that id before the step is a  *)
(* prefix of its grade sequence after it, and it changes only by the       *)
(* append of an addGrade on that id; updateName, sort, add, deletion of    *)
(* other records and addGrade on another id leave it as it is.             *)
C19_GradesAppendOnly ==
    [][\A a \in 1..Len(students), b \in 1..Len(students') :
          students[a].id = students'[b].id =>
              LET g == students[a].grades
                  h == students'[b].grades
              IN  /\ IsPrefix(g, h)
                  /\ h # g => /\ last'.op = "grade"
                              /\ last'.id = students[a].id
                              /\ h = Append(g, last'.grade)]_vars

\* a sort has moved a record that holds two grades
C19_Witness ==
    /\ last.op = "sort" /\ last.ret
    /\ students # pre
    /\ \E k \in 1..Len(students) :
          /\ Len(students[k].grades) >= 2
          /\ students[k].grades[1] # students[k].grades[2]
          /\ pre[k].id # students[k].id


----------------------------------------------------------------------------
\* the same records in the same order: ids, names and grade sequences
SameRecords(a, b) ==
    /\ Len(a) = Len(b)
    /\ \A k \in 1..Len(a) :
          /\ a[k].id = b[k].id
          /\ a[k].name = b[k].name
          /\ a[k].grades = b[k].grades

(* C21 as stated: save followed by load into a fresh empty store is a      *)
(* round trip: for every store reachable through the menu (any integer id, *)
(* any non-empty name) the loaded store has the same records in the same   *)
(* order, with the same ids, names and grade sequences as the saved store. *)
C21_Claim == last.op = "restart" => SameRecords(students, pre)


\* the records that a store holds, as a set: id, name and grades of each
RecordsOf(arr) ==
    {[id |-> arr[k].id, name |-> arr[k].name, grades |-> arr[k].grades] :
        k \in 1..Len(arr)}

\* the records that a saved file holds: the id, name and grades lines that
\* save writes one after the other for each student
FileRecords(file) ==
    {[id |-> file[k].val, name |-> file[k + 1].text, grades |-> file[k + 2].vals] :
        k \in {j \in 1..(Len(file) - 2) : file[j].kind = "id"}}

\* the commands that change record content
MutatingOps == {"add_menu", "grade_menu", "delete_menu", "update_menu"}

(* C22 as stated: every menu command that successfully mutates record      *)
(* content (add, add-grade, delete, update-name) saves before the next     *)
(* command is read, and a failed command saves nothing; so, starting with  *)
(* no data file and with all writes succeeding, whenever the menu waits    *)
(* for a command the persisted file holds the same set of records (id,     *)
(* name, grades) as the in-memory store, though possibly in a different    *)
(* order after a sort or search.                                           *)
C22_Claim ==
    /\ last.op \in MutatingOps => last.saves = (IF last.ret THEN 1 ELSE 0)
    /\ pc = "menu" =>
          IF data_file = NotWritten THEN students = <<>>
          ELSE FileRecords(data_file) = RecordsOf(students)


\* the buffers that the records of arr refer to
BuffersOf(arr) == {arr[k].buf : k \in 1..Len(arr)} \ {NULL}

(* C23: grade buffers are exclusively owned: in every state reachable by   *)
(* add, addGrade, delete, sort (any method) and free_students, no two      *)
(* records within the live range of the store refer to the same grade      *)
(* buffer, no live record refers to a released buffer, and every buffer    *)
(* is released exactly once (by delete of its record or by free_students), *)
(* never twice: a buffer is unreleased exactly as long as a live record    *)
(* refers to it, and a record has a buffer exactly when it has grades.     *)
C23_BuffersExclusivelyOwned ==
    /\ \A a, b \in 1..Len(students) :
          (a # b /\ students[a].buf # NULL) => students[a].buf # students[b].buf
    /\ \A a \in 1..Len(students) :
          /\ students[a].buf # NULL => students[a].buf \in 1..Len(heap)
          /\ students[a].buf # NULL => heap[students[a].buf] = 0
          /\ students[a].buf = NULL <=> students[a].grades = <<>>
    /\ \A b \in 1..Len(heap) :
          /\ heap[b] <= 1
          /\ heap[b] = 0 <=> b \in BuffersOf(students)
    /\ (last.op = "delete" /\ last.ret) =>
          \A b \in BuffersOf(pre) \ BuffersOf(students) : heap[b] = 1
    /\ last.op = "exit" => \A b \in 1..Len(heap) : heap[b] = 1

\* a merge sort has moved two records that hold a buffer each, after a
\* delete had released the buffer of a third
C23_Witness ==
    /\ last.op = "sort" /\ last.method = MERGE /\ last.ret
    /\ Len(students) = 2 /\ students # pre
    /\ students[1].buf # NULL /\ students[2].buf # NULL
    /\ students[1].buf = pre[2].buf /\ students[2].buf = pre[1].buf
    /\ \E b \in 1..Len(heap) : heap[b] = 1

====
